---- MODULE Spec2Model ----
(***************************************************************************)
(* Behavior arbitration node of the robot control crate                    *)
(* (crates/control/src/behavior/node.rs): the persistent Behavior struct,   *)
(* the per-cycle candidate list, and first-match arbitration over the      *)
(* executors.                                                              *)
(***************************************************************************)
EXTENDS Integers, Sequences, FiniteSets, TLC

(* ---------------------------------------------------------------------- *)
(* Option<T>: None is the empty tuple, Some(x) the one-element tuple.      *)
(* ---------------------------------------------------------------------- *)
None == << >>
Some(x) == << x >>
IsSome(o) == o # None
Unwrap(o) == o[1]

(* ---------------------------------------------------------------------- *)
(* Bounds of the model.                                                    *)
(* ---------------------------------------------------------------------- *)
\* cycle start times are drawn from 0..MaxTime (SystemTime is not monotonic)
MaxTime == 3
\* at most this many executors of one cycle return a command
MaxApplicable == 2
\* length of the recorded run in the specification that records history
MaxCycles == 3
\* maximum_lookaround_duration parameters are drawn from 1..MaxLookaround
MaxLookaround == 2
\* a key table read from a file binds at most MaxBindings keys
MaxBindings == 2

Times == 0 .. MaxTime

(* ---------------------------------------------------------------------- *)
(* Enumerations used by Behavior::cycle.                                   *)
(* ---------------------------------------------------------------------- *)
Roles ==
    { "DefenderLeft", "DefenderRight", "Keeper", "Loser", "MidfielderLeft",
      "MidfielderRight", "ReplacementKeeper", "Searcher", "Striker",
      "StrikerSupporter" }

PrimaryStates ==
    { "Unstiff", "Animation", "Initial", "Ready", "Set", "Playing",
      "Penalized", "Finished", "Calibration" }

Actions ==
    { "Unstiff", "Animation", "SitDown", "Penalize", "Initial", "FallSafely",
      "StandUp", "NoGroundContact", "Stand", "InterceptBall", "Calibrate",
      "LookAround", "DefendGoal", "DefendKickOff", "DefendLeft",
      "DefendRight", "DefendPenaltyKick", "Dribble", "Jump", "PrepareJump",
      "Search", "SearchForLostBall", "SupportLeft", "SupportRight",
      "SupportStriker", "WalkToKickOff", "WalkToPenaltyKick" }

\* MotionCommand is opaque to the node: only equality of commands matters
MotionCommands == { "Unstiff", "Stand", "Walk" }

Teams == { "Hulks", "Opponent" }
GamePhases == { "Normal", "PenaltyShootout" }
SubStates == { None, Some("PenaltyKick"), Some("CornerKick") }

\* FilteredGameState, with the fields the node matches on
FilteredGameStates ==
    { [tag |-> "Initial"], [tag |-> "Set"], [tag |-> "Finished"] }
    \cup { [tag |-> "Ready", kicking_team |-> t] : t \in Teams }
    \cup { [tag |-> "Playing", ball_is_free |-> b] : b \in BOOLEAN }

\* Option<FilteredGameControllerState>
FilteredGameControllerStates ==
    { None } \cup
    { Some([game_state |-> gs, game_phase |-> gp, kicking_team |-> kt,
            sub_state |-> ss]) :
        gs \in FilteredGameStates, gp \in GamePhases, kt \in Teams,
        ss \in SubStates }

\* ball_in_field of an observed ball; the origin is the constructed value
BallPositions == { "origin", "left", "right" }

(* ---------------------------------------------------------------------- *)
(* State.                                                                  *)
(* ---------------------------------------------------------------------- *)
VARIABLES
    last_motion_command,        \* Behavior.last_motion_command
    last_known_ball_position,   \* Behavior.last_known_ball_position
    active_since,               \* Behavior.active_since : Option<time>
    previous_role,              \* Behavior.previous_role
    context,                    \* Option<CycleContext> of the last cycle
    before,                     \* the Behavior fields when that cycle began
    actions,                    \* the candidate list that cycle built
    invoked,                    \* the executors it invoked, in order
    outcome,                    \* how it ended and what it returned
    handed,                     \* Behavior fields it passed to services
    written,                    \* the additional outputs it filled
    pc,                         \* "idle", "ready", "returned" or "aborted"
    history,                    \* recorded run: one entry per cycle
    config_1,                   \* twix: Option<Configuration>, merged into
    config_2,                   \* twix: Option<Configuration>, merged from
    tables,                     \* twix: the two key tables they were read from
    game_controller_state,      \* GameControllerFilter.game_controller_state
    last_game_state_change,     \* GameControllerFilter.last_game_state_change
    last_contact,               \* GameControllerFilter.last_contact
    last_collision_warning,     \* GameControllerFilter.last_collision_warning
    filtered,                   \* Option: the filter's last cycle, as observed
    motion_file,                \* Option: the MotionFile of the interpolator
    items,                      \* MotionInterpolator.items
    index,                      \* MotionInterpolator.index
    called                      \* the interpolator method called last

\* the tool's variables; the node never touches them
twix == << config_1, config_2, tables >>

\* the game-controller filter's variables
filter ==
    << game_controller_state, last_game_state_change, last_contact,
       last_collision_warning, filtered >>

\* the motion interpolator's variables
motion == << motion_file, items, index, called >>

vars ==
    << last_motion_command, last_known_ball_position, active_since,
       previous_role, context, before, actions, invoked, outcome, handed,
       written, pc, history, twix, filter, motion >>

Behavior ==
    [ last_motion_command |-> last_motion_command,
      last_known_ball_position |-> last_known_ball_position,
      active_since |-> active_since,
      previous_role |-> previous_role ]

(* Behavior::new *)
Init ==
    /\ last_motion_command = "Unstiff"
    /\ last_known_ball_position = "origin"
    /\ active_since = None
    /\ previous_role = "Searcher"
    /\ context = None
    /\ before = None
    /\ actions = << >>
    /\ invoked = << >>
    /\ outcome = None
    /\ handed = None
    /\ written = { }
    /\ pc = "idle"
    /\ history = << >>
    /\ config_1 = None
    /\ config_2 = None
    /\ tables = << >>
    /\ game_controller_state = None
    /\ last_game_state_change = None
    /\ last_contact = << >>
    /\ last_collision_warning = None
    /\ filtered = None
    /\ motion_file = None
    /\ items = << >>
    /\ index = 0
    /\ called = "none"

(* ---------------------------------------------------------------------- *)
(* Pure parts of Behavior::cycle.                                          *)
(* ---------------------------------------------------------------------- *)
IsActive(primary_state) == primary_state \in { "Ready", "Set", "Playing" }

\* an update that restarts the timer in every active cycle
ActiveSinceUpdate_Restart(since, primary_state, now) ==
    IF IsActive(primary_state) THEN Some(now) ELSE None

\* an update that keeps a set timer through inactive cycles
ActiveSinceUpdate_Keep(since, primary_state, now) ==
    IF since = None /\ IsActive(primary_state) THEN Some(now) ELSE since

\* match (self.active_since, world_state.robot.primary_state)
ActiveSinceUpdate(since, primary_state, now) ==
    CASE since = None /\ IsActive(primary_state) -> Some(now)
      [] since = None /\ ~IsActive(primary_state) -> None
      [] since # None /\ IsActive(primary_state) -> since
      [] OTHER -> None

\* a debounce without the Keeper condition
PreviousRoleUpdate_NoKeeper(previous, role) ==
    IF previous # role /\ role # "Searcher" /\ role # "Loser"
    THEN role
    ELSE previous

\* a debounce that lets Searcher through
PreviousRoleUpdate_Searcher(previous, role) ==
    IF previous # role /\ role # "Loser" /\ previous # "Keeper"
    THEN role
    ELSE previous

\* the debounce of previous_role
PreviousRoleUpdate(previous, role) ==
    IF /\ previous # role
       /\ role # "Searcher"
       /\ role # "Loser"
       /\ previous # "Keeper"
    THEN role
    ELSE previous

\* a ball memory that is never written
BallUpdate_Keep(position, ball) == position

\* a ball memory that falls back to the origin without an observation
BallUpdate_Reset(position, ball) ==
    IF IsSome(ball) THEN Unwrap(ball) ELSE "origin"

\* if let Some(ball_state) = &world_state.ball { .. = ball_in_field }
BallUpdate(position, ball) ==
    IF IsSome(ball) THEN Unwrap(ball) ELSE position

\* let mut actions = vec![...]
FixedPrefix ==
    << "Unstiff", "Animation", "SitDown", "Penalize", "Initial", "FallSafely",
       "StandUp", "NoGroundContact", "Stand", "InterceptBall", "Calibrate" >>

\* a duration that saturates at zero instead of failing
DurationSinceFails_Never(now, since) == FALSE

\* now.duration_since(active_since) is an error when now is the earlier one
DurationSinceFails(now, since) == now < since

\* a gate that still lets LookAround in when the maximum is reached
LookAroundActions_Inclusive(since, now, converged, maximum) ==
    IF ~converged /\ (now - since) <= maximum
    THEN << "LookAround" >>
    ELSE << >>

\* the push of LookAround, for active_since = Some(since), since <= now
LookAroundActions(since, now, converged, maximum_lookaround_duration) ==
    IF ~converged /\ (now - since) < maximum_lookaround_duration
    THEN << "LookAround" >>
    ELSE << >>

\* a Keeper branch whose second pattern forgets the Playing game state
KeeperActions_AnyGameState(fgcs) ==
    IF /\ IsSome(fgcs)
       /\ \/ Unwrap(fgcs).game_phase = "PenaltyShootout"
          \/ /\ Unwrap(fgcs).kicking_team = "Opponent"
             /\ Unwrap(fgcs).sub_state = Some("PenaltyKick")
    THEN << "Jump", "PrepareJump" >>
    ELSE << "DefendGoal" >>

\* Role::Keeper => match world_state.filtered_game_controller_state
KeeperActions(fgcs) ==
    IF /\ IsSome(fgcs)
       /\ \/ Unwrap(fgcs).game_phase = "PenaltyShootout"
          \/ /\ Unwrap(fgcs).game_state.tag = "Playing"
             /\ Unwrap(fgcs).kicking_team = "Opponent"
             /\ Unwrap(fgcs).sub_state = Some("PenaltyKick")
    THEN << "Jump", "PrepareJump" >>
    ELSE << "DefendGoal" >>

\* a Striker branch that tries the opponent's penalty kick before the own
\* kick-off
StrikerActions_DefendFirst(fgcs) ==
    IF fgcs = None THEN << "Dribble" >>
    ELSE LET g == Unwrap(fgcs)
         IN  IF g.game_state.tag = "Playing" /\ g.game_state.ball_is_free
             THEN << "Dribble" >>
             ELSE IF /\ g.game_state.tag = "Ready"
                     /\ g.sub_state = Some("PenaltyKick")
                     /\ g.kicking_team = "Opponent"
             THEN << "DefendPenaltyKick" >>
             ELSE IF /\ g.game_state.tag = "Ready"
                     /\ g.game_state.kicking_team = "Hulks"
             THEN IF g.sub_state = Some("PenaltyKick")
                  THEN << "WalkToPenaltyKick" >>
                  ELSE << "WalkToKickOff" >>
             ELSE << "DefendKickOff" >>

\* a Striker branch that dribbles in Playing whether the ball is free or not
StrikerActions_AlwaysDribble(fgcs) ==
    IF fgcs = None THEN << "Dribble" >>
    ELSE LET g == Unwrap(fgcs)
         IN  IF g.game_state.tag = "Playing" THEN << "Dribble" >>
             ELSE IF /\ g.game_state.tag = "Ready"
                     /\ g.game_state.kicking_team = "Hulks"
             THEN IF g.sub_state = Some("PenaltyKick")
                  THEN << "WalkToPenaltyKick" >>
                  ELSE << "WalkToKickOff" >>
             ELSE IF /\ g.game_state.tag = "Ready"
                     /\ g.sub_state = Some("PenaltyKick")
                     /\ g.kicking_team = "Opponent"
             THEN << "DefendPenaltyKick" >>
             ELSE << "DefendKickOff" >>

\* Role::Striker => match filtered_game_state
StrikerActions(fgcs) ==
    LET filtered_game_state ==
            IF IsSome(fgcs) THEN Some(Unwrap(fgcs).game_state) ELSE None
    IN  CASE filtered_game_state = None -> << "Dribble" >>
          [] /\ IsSome(filtered_game_state)
             /\ Unwrap(filtered_game_state).tag = "Playing"
             /\ Unwrap(filtered_game_state).ball_is_free -> << "Dribble" >>
          [] /\ IsSome(filtered_game_state)
             /\ Unwrap(filtered_game_state).tag = "Ready"
             /\ Unwrap(filtered_game_state).kicking_team = "Hulks" ->
                IF Unwrap(fgcs).sub_state = Some("PenaltyKick")
                THEN << "WalkToPenaltyKick" >>
                ELSE << "WalkToKickOff" >>
          [] OTHER ->
                IF /\ Unwrap(fgcs).game_state.tag = "Ready"
                   /\ Unwrap(fgcs).sub_state = Some("PenaltyKick")
                   /\ Unwrap(fgcs).kicking_team = "Opponent"
                THEN << "DefendPenaltyKick" >>
                ELSE << "DefendKickOff" >>

\* a role match with the two midfielder arms exchanged
RoleActions_Mirrored(role, fgcs) ==
    CASE role = "DefenderLeft" -> << "DefendLeft" >>
      [] role = "DefenderRight" -> << "DefendRight" >>
      [] role = "Keeper" -> KeeperActions(fgcs)
      [] role = "Loser" -> << "SearchForLostBall" >>
      [] role = "MidfielderLeft" -> << "SupportRight" >>
      [] role = "MidfielderRight" -> << "SupportLeft" >>
      [] role = "ReplacementKeeper" -> << "DefendGoal" >>
      [] role = "Searcher" -> << "Search" >>
      [] role = "Striker" -> StrikerActions(fgcs)
      [] role = "StrikerSupporter" -> << "SupportStriker" >>

\* match world_state.robot.role
RoleActions(role, fgcs) ==
    CASE role = "DefenderLeft" -> << "DefendLeft" >>
      [] role = "DefenderRight" -> << "DefendRight" >>
      [] role = "Keeper" -> KeeperActions(fgcs)
      [] role = "Loser" -> << "SearchForLostBall" >>
      [] role = "MidfielderLeft" -> << "SupportLeft" >>
      [] role = "MidfielderRight" -> << "SupportRight" >>
      [] role = "ReplacementKeeper" -> << "DefendGoal" >>
      [] role = "Searcher" -> << "Search" >>
      [] role = "Striker" -> StrikerActions(fgcs)
      [] role = "StrikerSupporter" -> << "SupportStriker" >>

\* a list builder that pushes LookAround in front of the fixed actions
CandidateList_LookAroundFirst(since, c) ==
    (IF IsSome(since)
     THEN LookAroundActions(Unwrap(since), c.now, c.converged,
                            c.maximum_lookaround_duration)
     ELSE << >>)
        \o FixedPrefix
        \o RoleActions(c.role, c.fgcs)

\* the candidate list of a cycle whose duration_since succeeded
CandidateList(since, c) ==
    FixedPrefix
        \o (IF IsSome(since)
            THEN LookAroundActions(Unwrap(since), c.now, c.converged,
                                   c.maximum_lookaround_duration)
            ELSE << >>)
        \o RoleActions(c.role, c.fgcs)

\* actions.iter().find_map(|action| { ...execute(...)?; Some(..) }):
\* the executors invoked, in order, and the first (action, command) found
RECURSIVE FindMapFrom(_, _, _)
FindMapFrom(list, exec, i) ==
    IF i > Len(list)
    THEN [invoked |-> << >>, found |-> None]
    ELSE IF IsSome(exec[list[i]])
         THEN [invoked |-> << list[i] >>,
               found |-> Some([action |-> list[i],
                               motion_command |-> Unwrap(exec[list[i]])])]
         ELSE LET rest == FindMapFrom(list, exec, i + 1)
              IN  [invoked |-> << list[i] >> \o rest.invoked,
                   found |-> rest.found]

\* a find_map that does not stop at the first command: every executor is
\* invoked and the last command found is kept
RECURSIVE FindLastFrom(_, _, _)
FindLastFrom(list, exec, i) ==
    IF i > Len(list)
    THEN [invoked |-> << >>, found |-> None]
    ELSE LET rest == FindLastFrom(list, exec, i + 1)
         IN  [invoked |-> << list[i] >> \o rest.invoked,
              found |-> IF IsSome(rest.found) \/ exec[list[i]] = None
                        THEN rest.found
                        ELSE Some([action |-> list[i],
                                   motion_command |-> Unwrap(exec[list[i]])])]

FindMap_Last(list, exec) == FindLastFrom(list, exec, 1)

FindMap(list, exec) == FindMapFrom(list, exec, 1)

\* services that are handed the command found in the current cycle
ServicesCommand_Current(command, found) ==
    IF IsSome(found) THEN Unwrap(found).motion_command ELSE command

\* &self.last_motion_command, as WalkPathPlanner::new and WalkAndStand::new
\* get it: the field is assigned only after find_map
ServicesCommand(command, found) == command

\* the additional outputs
AdditionalOutputs == { "path_obstacles", "dribble_path_obstacles",
                       "active_action" }

\* the executors that are passed &mut context.path_obstacles_output
ObstacleExecutors ==
    { "DefendGoal", "DefendKickOff", "DefendLeft", "DefendRight",
      "DefendPenaltyKick", "Search", "SearchForLostBall", "SupportLeft",
      "SupportRight", "SupportStriker", "WalkToKickOff",
      "WalkToPenaltyKick" }

\* the additional outputs filled by a cycle that reaches find_map: each
\* only if subscribed; path_obstacles by an invoked executor that fills it
\* (c.fills) or after Dribble is chosen
FilledOutputs(c, found) ==
    { o \in c.subscribed :
        \/ o = "dribble_path_obstacles"
        \/ o = "active_action" /\ IsSome(found.found)
        \/ /\ o = "path_obstacles"
           /\ \/ \E i \in 1 .. Len(found.invoked) :
                    found.invoked[i] \in ObstacleExecutors \cap c.fills
              \/ /\ IsSome(found.found)
                 /\ Unwrap(found.found).action = "Dribble" }

\* an injected-command return that still exposes the planned dribble path
InjectedOutputs_Planned(c) ==
    [motion_command |-> c.injected, dribble_path |-> c.planned]

\* return Ok(MainOutputs { motion_command: command.clone().into(),
\*                         dribble_path: None.into() })
InjectedOutputs(c) ==
    [motion_command |-> c.injected, dribble_path |-> None]

\* an injected-command return that remembers the injected command as the
\* last motion command
InjectedReturn_Remembered(self, c) ==
    [self EXCEPT !.last_motion_command = Unwrap(c.injected)]

\* the fields of self when the injected command is returned: the return
\* comes before the first assignment to a field
InjectedReturn(self, c) == self

(* ---------------------------------------------------------------------- *)
(* Behavior::cycle.  The context of one cycle is a record                  *)
(*   role, primary_state, fgcs, ball : the world state                     *)
(*   now                             : cycle_time.start_time                *)
(*   converged                       : is_localization_converged           *)
(*   maximum_lookaround_duration, injected : behavior parameters           *)
(*   exec     : what each action's executor returns for this world state   *)
(*   planned  : what dribble_path_planner::plan returns for it             *)
(*   subscribed : the additional outputs that are subscribed               *)
(*   fills    : the executors that fill path_obstacles when invoked        *)
(* ---------------------------------------------------------------------- *)
Range(seq) == { seq[i] : i \in 1 .. Len(seq) }

\* outputs that carry the dribble path only when Dribble is the action
Returned_DribbleOnly(status, action, motion_command, dribble_path) ==
    Some([status |-> status, action |-> action,
          motion_command |-> motion_command,
          dribble_path |-> IF action = Some("Dribble") THEN dribble_path
                           ELSE None])

Returned(status, action, motion_command, dribble_path) ==
    Some([status |-> status, action |-> action,
          motion_command |-> motion_command, dribble_path |-> dribble_path])

Cycle ==
    /\ pc = "ready"
    /\ LET c == Unwrap(context)
           ball_position == BallUpdate(last_known_ball_position, c.ball)
           since == ActiveSinceUpdate(active_since, c.primary_state, c.now)
           role == PreviousRoleUpdate(previous_role, c.role)
           list == CandidateList(since, c)
           found == FindMap(list, c.exec)
       IN  /\ before' = Some(Behavior)
           /\ IF IsSome(c.injected)
              THEN \* the injected command is returned before anything else
                   /\ last_motion_command' =
                        InjectedReturn(Behavior, c).last_motion_command
                   /\ last_known_ball_position' =
                        InjectedReturn(Behavior, c).last_known_ball_position
                   /\ active_since' = InjectedReturn(Behavior, c).active_since
                   /\ previous_role' =
                        InjectedReturn(Behavior, c).previous_role
                   /\ actions' = << >>
                   /\ invoked' = << >>
                   /\ outcome' = Returned("ok", None,
                                          InjectedOutputs(c).motion_command,
                                          InjectedOutputs(c).dribble_path)
                   /\ handed' = None
                   /\ written' = { }
                   /\ pc' = "returned"
              ELSE /\ last_known_ball_position' = ball_position
                   /\ active_since' = since
                   /\ previous_role' = role
                   /\ IF IsSome(since)
                         /\ DurationSinceFails(c.now, Unwrap(since))
                      THEN \* duration_since(..)? returns the error
                           /\ UNCHANGED last_motion_command
                           /\ actions' = FixedPrefix
                           /\ invoked' = << >>
                           /\ outcome' = Returned("err", None, None, None)
                           /\ handed' = None
                           /\ written' = { }
                           /\ pc' = "returned"
                      ELSE /\ actions' = list
                           /\ invoked' = found.invoked
                           /\ handed' =
                                Some([last_motion_command |->
                                        ServicesCommand(last_motion_command,
                                                        found.found),
                                      previous_role |->
                                        IF "Search" \in Range(found.invoked)
                                        THEN Some(role) ELSE None,
                                      ball_position |->
                                        IF "SearchForLostBall"
                                              \in Range(found.invoked)
                                        THEN Some(ball_position) ELSE None])
                           /\ written' = FilledOutputs(c, found)
                           /\ IF IsSome(found.found)
                              THEN /\ last_motion_command' =
                                        Unwrap(found.found).motion_command
                                   /\ outcome' =
                                        Returned("ok",
                                            Some(Unwrap(found.found).action),
                                            Some(Unwrap(found.found).motion_command),
                                            c.planned)
                                   /\ pc' = "returned"
                              ELSE \* panic!("there has to be at least one
                                   \* action available")
                                   /\ UNCHANGED last_motion_command
                                   /\ outcome' =
                                        Returned("panic", None, None, None)
                                   /\ pc' = "aborted"
    /\ UNCHANGED << context, twix, filter, motion >>

\* the framework is between two cycles
Idle == pc = "idle"

\* the framework hands the node the context of the next cycle
Receive(c) ==
    /\ Idle
    /\ context' = Some(c)
    /\ pc' = "ready"
    /\ UNCHANGED << last_motion_command, last_known_ball_position,
                    active_since, previous_role, before, actions, invoked,
                    outcome, handed, written, history, twix, filter,
                    motion >>

\* the framework takes the outputs; the cycle's locals are dropped
Return ==
    /\ pc = "returned"
    /\ context' = None
    /\ before' = None
    /\ actions' = << >>
    /\ invoked' = << >>
    /\ outcome' = None
    /\ handed' = None
    /\ written' = { }
    /\ pc' = "idle"
    /\ UNCHANGED << last_motion_command, last_known_ball_position,
                    active_since, previous_role, history, twix, filter,
                    motion >>

CycleStep == Cycle /\ UNCHANGED history

(* ---------------------------------------------------------------------- *)
(* Contexts.                                                               *)
(* ---------------------------------------------------------------------- *)
Ctx(role, state, fgcs, ball, now, converged, maxdur, inj, exec, planned) ==
    [ role |-> role, primary_state |-> state, fgcs |-> fgcs,
      ball |-> ball, now |-> now, converged |-> converged,
      maximum_lookaround_duration |-> maxdur, injected |-> inj,
      exec |-> exec, planned |-> planned, subscribed |-> { },
      fills |-> { } ]

\* the executor of action a, and no other, returns command m
ExecOnly(a, m) == [x \in Actions |-> IF x = a THEN Some(m) ELSE None]

RECURSIVE SubsetsUpTo(_, _)
SubsetsUpTo(S, n) ==
    IF n = 0 THEN { {} }
    ELSE LET smaller == SubsetsUpTo(S, n - 1)
         IN  smaller \cup { T \cup {x} : T \in smaller, x \in S }

\* executor results in which at most n executors, all of pool, return a
\* command
Execs(pool, n) ==
    UNION { { [x \in Actions |-> IF x \in S THEN Some(f[x]) ELSE None] :
                f \in [S -> MotionCommands] } :
            S \in SubsetsUpTo(pool, n) }

\* a filtered game-controller state of a penalty shoot-out
PenaltyShootout ==
    Some([game_state |-> [tag |-> "Set"], game_phase |-> "PenaltyShootout",
          kicking_team |-> "Opponent", sub_state |-> None])

Injections == { None, Some("Walk") }
Balls == { None, Some("left"), Some("right") }

\* no executor returns a command
NoExec == [x \in Actions |-> None]

(* Spec: roles, ball observations, injected commands and clock jumps; the  *)
(* cycle ends with Stand, with Search, or with no command at all.          *)
StateContexts ==
    { Ctx(r, ps, None, b, t, TRUE, MaxLookaround, inj, e, None) :
        r \in { "Keeper", "Searcher", "Loser", "Striker", "DefenderLeft",
                "ReplacementKeeper" },
        ps \in { "Initial", "Playing" },
        b \in Balls, t \in Times, inj \in Injections,
        e \in { ExecOnly("Stand", "Stand"), ExecOnly("Search", "Walk"),
                NoExec } }

Next ==
    \/ Idle /\ \E c \in StateContexts : Receive(c)
    \/ CycleStep
    \/ Return

Spec == Init /\ [][Next]_vars
(* SpecTiming: every primary state against the clock, the localization    *)
(* flag and the look-around parameter.                                     *)
TimingContexts ==
    { Ctx(r, ps, g, None, t, conv, d, inj,
          ExecOnly("Stand", "Stand"), None) :
        r \in { "Striker", "Keeper" }, ps \in PrimaryStates,
        g \in { None, PenaltyShootout }, t \in Times, conv \in BOOLEAN,
        d \in 1 .. MaxLookaround, inj \in Injections }

NextTiming ==
    \/ Idle /\ \E c \in TimingContexts : Receive(c)
    \/ CycleStep
    \/ Return

SpecTiming == Init /\ [][NextTiming]_vars

(* SpecRoles: every role against every filtered game-controller state.     *)
RolesContexts ==
    { Ctx(r, ps, g, None, 0, conv, MaxLookaround, None,
          ExecOnly("Stand", "Stand"), None) :
        r \in Roles, ps \in { "Initial", "Playing" },
        g \in FilteredGameControllerStates, conv \in BOOLEAN }

NextRoles ==
    \/ Idle /\ \E c \in RolesContexts : Receive(c)
    \/ CycleStep
    \/ Return

SpecRoles == Init /\ [][NextRoles]_vars

(* SpecArb: the executors' results vary; at most MaxApplicable executors,  *)
(* out of a pool spread over the list, return a command.                   *)
ArbPool ==
    { "Unstiff", "Stand", "LookAround", "Jump", "PrepareJump", "DefendGoal",
      "Dribble", "Search" }

ArbContexts ==
    { Ctx(r, "Playing", g, None, 0, FALSE, MaxLookaround, inj, e, None) :
        r \in { "Keeper", "Striker", "Searcher" },
        g \in { None, PenaltyShootout },
        inj \in Injections, e \in Execs(ArbPool, MaxApplicable) }

NextArb ==
    \/ Idle /\ \E c \in ArbContexts : Receive(c)
    \/ CycleStep
    \/ Return

SpecArb == Init /\ [][NextArb]_vars

(* SpecOutputs: main and additional outputs against the subscriptions,     *)
(* the planner's result and the injected command.                          *)
OutputScenarios ==
    { [exec |-> ExecOnly("Stand", "Stand"), fills |-> { }],
      [exec |-> ExecOnly("Dribble", "Walk"), fills |-> { }],
      [exec |-> ExecOnly("Search", "Walk"), fills |-> { "Search" }],
      [exec |-> NoExec, fills |-> { "Search" }] }

OutputContexts ==
    { [Ctx(r, ps, None, b, t, TRUE, MaxLookaround, inj, sc.exec, pl)
          EXCEPT !.subscribed = sub, !.fills = sc.fills] :
        r \in { "Striker", "Searcher" }, ps \in { "Initial", "Playing" },
        b \in { None, Some("left") }, t \in { 0, MaxTime },
        inj \in Injections, sc \in OutputScenarios,
        pl \in { None, Some("path") }, sub \in SUBSET AdditionalOutputs }

NextOutputs ==
    \/ Idle /\ \E c \in OutputContexts : Receive(c)
    \/ CycleStep
    \/ Return

SpecOutputs == Init /\ [][NextOutputs]_vars

(* SpecRun: runs of at most MaxCycles cycles, recorded in history.          *)
RunContexts ==
    { Ctx("Striker", ps, None, None, t, TRUE, MaxLookaround, inj,
          ExecOnly("Stand", "Stand"), None) :
        ps \in { "Initial", "Playing" }, t \in Times,
        inj \in Injections }

\* committed: the command find_map chose in that cycle, if it chose one
HistoryEntry(c, out) ==
    [ now |-> c.now, primary_state |-> c.primary_state,
      injected |-> IsSome(c.injected),
      committed |-> IF out.action # None THEN out.motion_command ELSE None ]

CycleRecorded ==
    /\ Cycle
    /\ history' = Append(history,
                         HistoryEntry(Unwrap(context), Unwrap(outcome')))

NextRun ==
    \/ Idle /\ Len(history) < MaxCycles /\ \E c \in RunContexts : Receive(c)
    \/ CycleRecorded
    \/ Return

SpecRun == Init /\ [][NextRun]_vars

(* SpecCommands: recorded runs in which the executors of Stand and Dribble  *)
(* return any command or none, and commands are injected.                  *)
CommandContexts ==
    { Ctx("Striker", "Playing", None, None, 0, TRUE, MaxLookaround, inj, e,
          None) :
        inj \in Injections, e \in Execs({ "Stand", "Dribble" }, 1) }

NextCommands ==
    \/ Idle /\ Len(history) < MaxCycles
            /\ \E c \in CommandContexts : Receive(c)
    \/ CycleRecorded
    \/ Return

SpecCommands == Init /\ [][NextCommands]_vars

(* ---------------------------------------------------------------------- *)
(* twix: Configuration and its key bindings.                               *)
(*                                                                         *)
(* A key table is what a [keys] section of a configuration file holds: a   *)
(* function from key notations to actions.  A notation is the sequence of  *)
(* its dash-separated parts, modifiers first and the key last: C-S-a is    *)
(* << "C", "S", "a" >>.  The keys module, which parses notations and       *)
(* merges bindings, is modelled by what tests::merge_configs shows of it.  *)
(* ---------------------------------------------------------------------- *)
\* the node's variables; the tool never touches them
node ==
    << last_motion_command, last_known_ball_position, active_since,
       previous_role, context, before, actions, invoked, outcome, handed,
       written, pc, history >>

KeybindActions == { "focus_left", "focus_right", "reconnect" }

Notations ==
    { << "C", "a" >>, << "C", "S", "a" >>, << "C", "A" >>, << "C", "c" >> }

\* the lowercase form of each key character
Lowercase == [a |-> "a", A |-> "a", c |-> "c"]

IsUppercase(key) == Lowercase[key] # key

\* the trigger a notation stands for: an uppercase key is the lowercase key
\* with shift
ParseTrigger(notation) ==
    LET key == notation[Len(notation)]
        modifiers == { notation[i] : i \in 1 .. Len(notation) - 1 }
    IN  [ key |-> Lowercase[key],
          modifiers |-> IF IsUppercase(key) THEN modifiers \cup { "S" }
                        ELSE modifiers ]

\* the key tables of at most MaxBindings bindings in which no two notations
\* stand for the same trigger
TomlTables ==
    { t \in UNION { [d -> KeybindActions] :
                        d \in SubsetsUpTo(Notations, MaxBindings) } :
        \A m, n \in DOMAIN t : ParseTrigger(m) = ParseTrigger(n) => m = n }

\* toml::from_str::<Configuration>
FromStr(table) ==
    [ keys |->
        [ trigger \in { ParseTrigger(n) : n \in DOMAIN table } |->
            table[CHOOSE n \in DOMAIN table : ParseTrigger(n) = trigger] ] ]

\* Keybinds::merge: the bindings of other are put into self
KeybindsMerge(self, other) ==
    [ trigger \in DOMAIN self \cup DOMAIN other |->
        IF trigger \in DOMAIN other THEN other[trigger] ELSE self[trigger] ]

\* a merge that puts the bindings of self into other
ConfigurationMerge_Swapped(self, other) ==
    [ keys |-> KeybindsMerge(other.keys, self.keys) ]

\* Configuration::merge
ConfigurationMerge(self, other) ==
    [ keys |-> KeybindsMerge(self.keys, other.keys) ]

\* both configurations are read
LoadConfigs(table_1, table_2) ==
    /\ config_1 = None
    /\ config_1' = Some(FromStr(table_1))
    /\ config_2' = Some(FromStr(table_2))
    /\ tables' = << table_1, table_2 >>
    /\ UNCHANGED << node, filter, motion >>

\* config_1.merge(config_2): config_2 is moved into the call
MergeConfigs ==
    /\ config_1 # None
    /\ config_2 # None
    /\ config_1' = Some(ConfigurationMerge(Unwrap(config_1), Unwrap(config_2)))
    /\ config_2' = None
    /\ UNCHANGED << tables, node, filter, motion >>

\* the merged configuration goes out of scope
DropConfigs ==
    /\ config_1 # None
    /\ config_2 = None
    /\ config_1' = None
    /\ tables' = << >>
    /\ UNCHANGED << config_2, node, filter, motion >>

NextConfig ==
    \/ config_1 = None
          /\ \E table_1, table_2 \in TomlTables : LoadConfigs(table_1, table_2)
    \/ MergeConfigs
    \/ DropConfigs

SpecConfig == Init /\ [][NextConfig]_vars

(* ---------------------------------------------------------------------- *)
(* GameControllerFilter.                                                   *)
(*                                                                         *)
(* A SystemTime is [secs, nanos], nanos below 10^9, as is a Duration.  An  *)
(* f32 of one second or more is represented by its value in units of       *)
(* 2^-23, which every such f32 below 2^24 is a multiple of; an f32 below   *)
(* one second is taken down to that unit.                                  *)
(* ---------------------------------------------------------------------- *)
NANOS_PER_SEC == 1000000000

\* the unit of the f32 representation: F32One, 2^23, stands for 1.0
F32One == 8388608

RECURSIVE Pow2(_)
Pow2(n) == IF n = 0 THEN 1 ELSE 2 * Pow2(n - 1)

\* floor of the binary logarithm of n >= 1
RECURSIVE Log2(_)
Log2(n) == IF n < 2 THEN 0 ELSE 1 + Log2(n \div 2)

\* n / d rounded to the nearest integer, ties to the even one
RoundEven(n, d) ==
    LET q == n \div d
        r == n % d
    IN  IF 2 * r > d \/ (2 * r = d /\ q % 2 = 1) THEN q + 1 ELSE q

\* nanos as f32: an integer below 2^30 rounded to 24 significant bits
NanosAsF32(nanos) ==
    IF nanos < 2 * F32One THEN nanos
    ELSE LET e == Log2(nanos) - 23
         IN  RoundEven(nanos, Pow2(e)) * Pow2(e)

\* long division of r / 10^9 below 1: binary digits are taken until the
\* mantissa m has 24 significant bits, then the quotient m / 2^p is rounded
\* by the remainder
RECURSIVE DivideBits(_, _, _)
DivideBits(r, m, p) ==
    IF m >= F32One
    THEN [ m |-> IF \/ 2 * r > NANOS_PER_SEC
                    \/ (2 * r = NANOS_PER_SEC /\ m % 2 = 1)
                 THEN m + 1 ELSE m,
           p |-> p ]
    ELSE LET bit == IF 2 * r >= NANOS_PER_SEC THEN 1 ELSE 0
         IN  DivideBits(2 * r - bit * NANOS_PER_SEC, 2 * m + bit, p + 1)

\* (nanos as f32) / (NANOS_PER_SEC as f32), as the fraction m / 2^p
FractionF32(nanos) ==
    LET n == NanosAsF32(nanos)
    IN  IF n = 0 THEN [ m |-> 0, p |-> 0 ]
        ELSE IF n = NANOS_PER_SEC THEN [ m |-> 1, p |-> 0 ]
        ELSE DivideBits(n, 0, 0)

\* m / 2^p on the grid of 2^-u, rounded to nearest, ties to even
OnGrid(fraction, u) ==
    IF fraction.p <= u THEN fraction.m * Pow2(u - fraction.p)
    ELSE IF fraction.p - u > 25 THEN 0
    ELSE RoundEven(fraction.m, Pow2(fraction.p - u))

\* Duration::as_secs_f32: (secs as f32) + (nanos as f32) / (10^9 as f32)
AsSecsF32(duration) ==
    LET fraction == FractionF32(duration.nanos)
        exponent == Log2(duration.secs)
    IN  IF duration.secs = 0
        THEN IF fraction.p <= 23 THEN fraction.m * Pow2(23 - fraction.p)
             ELSE IF fraction.p - 23 > 25 THEN 0
             ELSE fraction.m \div Pow2(fraction.p - 23)
        ELSE duration.secs * F32One
               + OnGrid(fraction, 23 - exponent) * Pow2(exponent)

\* a <= b on SystemTime
NotAfter(a, b) == a.secs < b.secs \/ (a.secs = b.secs /\ a.nanos <= b.nanos)

\* SystemTime::duration_since: None is the error of an earlier self
DurationSince(self, earlier) ==
    IF ~NotAfter(earlier, self) THEN None
    ELSE IF self.nanos >= earlier.nanos
    THEN Some([ secs |-> self.secs - earlier.secs,
                nanos |-> self.nanos - earlier.nanos ])
    ELSE Some([ secs |-> self.secs - earlier.secs - 1,
                nanos |-> self.nanos + NANOS_PER_SEC - earlier.nanos ])

Seconds(n) == [ secs |-> n, nanos |-> 0 ]

\* GameControllerFilter as a value
Filter ==
    [ game_controller_state |-> game_controller_state,
      last_game_state_change |-> last_game_state_change,
      last_contact |-> last_contact,
      last_collision_warning |-> last_collision_warning ]

\* a comparison that takes every message for a change of game state
GameStateChanged_Always(stored, message) == TRUE

\* let game_state_changed = match &self.game_controller_state
GameStateChanged(stored, message) ==
    IF stored = None THEN TRUE
    ELSE Unwrap(stored).game_state # message.game_state

\* self.last_contact.insert(*source_address, time)
Insert(map, key, value) ==
    [ k \in DOMAIN map \cup { key } |-> IF k = key THEN value ELSE map[k] ]

\* the cooldown between two collision warnings, as f32 seconds
CollisionCooldown == 10 * F32One

\* how long a contact counts as recent, as f32 seconds
RecentContact == 5 * F32One

\* a filter without cooldown
OnCooldown_Never(warning, time) == FALSE

\* is_some_and(|last_collision_warning| time.duration_since(..) < 10.0);
\* called only when duration_since succeeds
OnCooldown(warning, time) ==
    /\ warning # None
    /\ AsSecsF32(Unwrap(DurationSince(time, Unwrap(warning))))
         < CollisionCooldown

\* the addresses the filter of recent_contacts keeps; called only when
\* every duration_since succeeds
RecentContacts(contacts, time) ==
    { address \in DOMAIN contacts :
        AsSecsF32(Unwrap(DurationSince(time, contacts[address])))
          < RecentContact }

\* expect("time ran backwards") fails for the cooldown or for a contact
TimeRanBackwards(warning, contacts, time) ==
    \/ warning # None /\ DurationSince(time, Unwrap(warning)) = None
    \/ \E address \in DOMAIN contacts :
          DurationSince(time, contacts[address]) = None

\* the body of the loop for one game-controller message.  run is the filter
\* with what the cycle did so far: the number of messages it went through,
\* the warnings it requested and whether it panicked.
ProcessMessage(run, start_time, message) ==
    LET self == run.self
        changed == GameStateChanged(self.game_controller_state, message)
        change == IF changed THEN Some(start_time)
                  ELSE self.last_game_state_change
        contacts == Insert(self.last_contact, message.source_address,
                           message.time)
        state == Some([ game_state |-> message.game_state,
                        last_game_state_change |-> Unwrap(change) ])
        collisions ==
            Cardinality(RecentContacts(contacts, message.time)) > 1
        warn == /\ collisions
                /\ ~OnCooldown(self.last_collision_warning, message.time)
    IN  IF change = None
        THEN \* self.last_game_state_change.unwrap() panics
             [ run EXCEPT !.self.last_game_state_change = change,
                          !.status = "unwrap" ]
        ELSE IF TimeRanBackwards(self.last_collision_warning, contacts,
                                 message.time)
        THEN [ run EXCEPT !.self.last_game_state_change = change,
                          !.self.game_controller_state = state,
                          !.self.last_contact = contacts,
                          !.processed = @ + 1,
                          !.status = "panic" ]
        ELSE [ run EXCEPT
                 !.self.last_game_state_change = change,
                 !.self.game_controller_state = state,
                 !.self.last_contact = contacts,
                 !.self.last_collision_warning =
                     IF warn THEN Some(message.time) ELSE @,
                 !.processed = @ + 1,
                 !.requested =
                     IF warn
                     THEN Append(@, [ time |-> message.time,
                                      contacts |-> contacts,
                                      since |-> self.last_collision_warning ])
                     ELSE @ ]

\* for (time, source_address, message) in ... { ... }
RECURSIVE ProcessMessages(_, _, _)
ProcessMessages(run, start_time, messages) ==
    IF messages = << >> \/ run.status # "ok" THEN run
    ELSE ProcessMessages(ProcessMessage(run, start_time, Head(messages)),
                         start_time, Tail(messages))

\* max_by_key(|(_address, time)| *time): the map's order decides between
\* addresses of equal time
LastAddresses(contacts) ==
    IF DOMAIN contacts = { } THEN { None }
    ELSE { Some(a) : a \in { a \in DOMAIN contacts :
                \A b \in DOMAIN contacts : NotAfter(contacts[b], contacts[a]) } }

\* GameControllerFilter::cycle on the game-controller messages of the cycle
FilterCycle(start_time, messages) ==
    /\ filtered = None
    /\ \E run \in { ProcessMessages([ self |-> Filter, processed |-> 0,
                                       requested |-> << >>,
                                       status |-> "ok" ],
                                     start_time, messages) } :
           /\ game_controller_state' = run.self.game_controller_state
           /\ last_game_state_change' = run.self.last_game_state_change
           /\ last_contact' = run.self.last_contact
           /\ last_collision_warning' = run.self.last_collision_warning
           /\ \E address \in LastAddresses(run.self.last_contact) :
                filtered' =
                  Some([ start_time |-> start_time,
                         messages |-> messages,
                         before |-> Filter,
                         processed |-> run.processed,
                         requested |-> run.requested,
                         status |-> run.status,
                         game_controller_state |->
                             IF run.status = "ok"
                             THEN run.self.game_controller_state ELSE None,
                         game_controller_address |->
                             IF run.status = "ok" THEN address ELSE None ])
    /\ UNCHANGED << node, twix, motion >>

\* the framework takes the outputs of a cycle that returned; a cycle that
\* panicked has stopped the process
FilterReturn ==
    /\ filtered # None
    /\ Unwrap(filtered).status = "ok"
    /\ filtered' = None
    /\ UNCHANGED << game_controller_state, last_game_state_change,
                    last_contact, last_collision_warning, node, twix,
                    motion >>

Addresses == { "10.0.0.1", "10.0.0.2" }
GameStates == { "Initial", "Playing" }

\* sequences over S of length at most n
SeqsUpTo(S, n) == UNION { [1 .. k -> S] : k \in 0 .. n }

\* message times go up to MaxSecs seconds
MaxSecs == 10
\* a cycle carries at most MaxMessages game-controller messages
MaxMessages == 2

(* SpecFilter: game states change and time may run backwards.              *)
FilterMessages ==
    { [ time |-> Seconds(t), source_address |-> a, game_state |-> g ] :
        t \in 0 .. 1, a \in Addresses, g \in GameStates }

NextFilter ==
    \/ filtered = None
          /\ \E start \in Times,
                messages \in SeqsUpTo(FilterMessages, MaxMessages) :
                FilterCycle(Seconds(start), messages)
    \/ FilterReturn

SpecFilter == Init /\ [][NextFilter]_vars

(* SpecCollisions: one message per cycle, times never decrease, and times   *)
(* just below a full second occur.                                         *)
MessageTimes ==
    { [ secs |-> t, nanos |-> n ] :
        t \in 0 .. MaxSecs, n \in { 0, NANOS_PER_SEC - 1 } }

CollisionMessages ==
    { [ time |-> t, source_address |-> a, game_state |-> "Playing" ] :
        t \in MessageTimes, a \in Addresses }

\* no contact so far is later than the message
InOrder(message) ==
    \A a \in DOMAIN last_contact : NotAfter(last_contact[a], message.time)

NextCollisions ==
    \/ filtered = None
          /\ \E message \in CollisionMessages :
                InOrder(message) /\ FilterCycle(Seconds(0), << message >>)
    \/ FilterReturn

SpecCollisions == Init /\ [][NextCollisions]_vars

(* ---------------------------------------------------------------------- *)
(* MotionInterpolator.                                                     *)
(*                                                                         *)
(* A MotionFile is its sequence of frames: [kind |-> "Joints", duration]   *)
(* or [kind |-> "Condition"].  SplineInterpolator and ConditionEnum are    *)
(* other crates' types: a spline is its key times and the time it has      *)
(* advanced, finished when that reaches the distance between its first and *)
(* last key; a condition is finished when the last sensor data it was      *)
(* updated with satisfied it.                                              *)
(* ---------------------------------------------------------------------- *)
\* a motion file has at most MaxFrames frames
MaxFrames == 3
\* frame durations and time steps are drawn from 1 .. MaxDuration
MaxDuration == 2

Frames ==
    { [ kind |-> "Joints", duration |-> d ] : d \in 1 .. MaxDuration }
    \cup { [ kind |-> "Condition" ] }

MotionFiles == SeqsUpTo(Frames, MaxFrames)

\* SplineInterpolator::try_new(frames)
SplineItem(keys) == [ kind |-> "Spline", keys |-> keys, advanced |-> 0 ]

\* MotionItem::Condition(condition)
ConditionItem == [ kind |-> "Condition", finished |-> FALSE ]

\* the for loop of try_from over the frames left, with the local variables
\* current_time, current_spline_frames and motion_items
RECURSIVE TryFromLoop(_, _, _, _)
TryFromLoop(frames, current_time, current_spline_frames, motion_items) ==
    IF frames = << >> THEN motion_items
    ELSE IF Head(frames).kind = "Joints"
    THEN TryFromLoop(Tail(frames), current_time + Head(frames).duration,
                     Append(current_spline_frames,
                            current_time + Head(frames).duration),
                     motion_items)
    ELSE TryFromLoop(Tail(frames), current_time,
                     << current_spline_frames[Len(current_spline_frames)] >>,
                     motion_items \o << SplineItem(current_spline_frames),
                                        ConditionItem >>)

\* TryFrom<MotionFile> for MotionInterpolator
TryFrom(file) ==
    [ items |-> TryFromLoop(file, 0, << 0 >>, << >>), index |-> 0 ]

\* MotionItem::is_finished
IsFinished(item) ==
    IF item.kind = "Spline"
    THEN item.advanced >= item.keys[Len(item.keys)] - item.keys[1]
    ELSE item.finished

\* spline.advance_by(time_step): the spline does not advance past its end
SplineAdvanceBy(item, time_step) ==
    LET total == item.keys[Len(item.keys)] - item.keys[1]
    IN  [ item EXCEPT !.advanced =
            IF @ + time_step > total THEN total ELSE @ + time_step ]

\* spline.reset() and condition.reset()
ItemReset(item) ==
    IF item.kind = "Spline" THEN [ item EXCEPT !.advanced = 0 ]
    ELSE [ item EXCEPT !.finished = FALSE ]

\* MotionInterpolator::try_from(motion_file)
Construct(file) ==
    /\ motion_file = None
    /\ motion_file' = Some(file)
    /\ items' = TryFrom(file).items
    /\ index' = TryFrom(file).index
    /\ called' = "try_from"
    /\ UNCHANGED << node, twix, filter >>

\* MotionInterpolator::advance_by; self.items[self.index] panics when the
\* file had no condition frame and items is empty
AdvanceBy(time_step) ==
    /\ motion_file # None
    /\ called # "panic"
    /\ IF index + 1 > Len(items)
       THEN /\ called' = "panic"
            /\ UNCHANGED << items, index >>
       ELSE LET item == IF items[index + 1].kind = "Spline"
                        THEN SplineAdvanceBy(items[index + 1], time_step)
                        ELSE items[index + 1]
            IN  /\ items' = [ items EXCEPT ![index + 1] = item ]
                /\ index' = IF IsFinished(item) /\ index < Len(items) - 1
                            THEN index + 1 ELSE index
                /\ called' = "advance_by"
    /\ UNCHANGED << motion_file, node, twix, filter >>

\* MotionInterpolator::update: satisfied tells whether the sensor data
\* satisfy the conditions
Update(satisfied) ==
    /\ motion_file # None
    /\ called # "panic"
    /\ items' = [ i \in 1 .. Len(items) |->
                    IF items[i].kind = "Condition"
                    THEN [ items[i] EXCEPT !.finished = satisfied ]
                    ELSE items[i] ]
    /\ called' = "update"
    /\ UNCHANGED << motion_file, index, node, twix, filter >>

\* MotionInterpolator::reset
Reset ==
    /\ motion_file # None
    /\ called # "panic"
    /\ items' = [ i \in 1 .. Len(items) |-> ItemReset(items[i]) ]
    /\ called' = "reset"
    /\ UNCHANGED << motion_file, index, node, twix, filter >>

NextMotion ==
    \/ motion_file = None /\ \E file \in MotionFiles : Construct(file)
    \/ \E time_step \in 1 .. MaxDuration : AdvanceBy(time_step)
    \/ \E satisfied \in BOOLEAN : Update(satisfied)
    \/ Reset

SpecMotion == Init /\ [][NextMotion]_vars

(* ---------------------------------------------------------------------- *)
(* Properties.                                                             *)
(* ---------------------------------------------------------------------- *)
\* a cycle has run and its context, entry state and outcome are on record
CycleDone == pc \in { "returned", "aborted" }
Ctxt == Unwrap(context)
Out == Unwrap(outcome)
Pre == Unwrap(before)
NotInjected == CycleDone /\ Ctxt.injected = None
Elements(seq) == { seq[i] : i \in 1 .. Len(seq) }

\* C1: a cycle without injected command that completes commits exactly one
\* (action, command) pair: the action is the earliest element of that
\* cycle's candidate list whose executor returned a command, the emitted
\* command is that executor's, and the executors invoked are exactly the
\* elements up to and including it (none after it).
C1_FirstCommandWins ==
    (NotInjected /\ Out.status = "ok") =>
        \E i \in 1 .. Len(actions) :
            /\ Out.action = Some(actions[i])
            /\ \A j \in 1 .. (i - 1) : Ctxt.exec[actions[j]] = None
            /\ IsSome(Ctxt.exec[actions[i]])
            /\ Out.motion_command = Ctxt.exec[actions[i]]
            /\ invoked = SubSeq(actions, 1, i)

\* C1 witness: Stand wins although the executor of the later Search would
\* return a command too; Search is not invoked.
C1_Witness ==
    /\ NotInjected /\ Out.status = "ok"
    /\ Out.action = Some("Stand")
    /\ "Search" \in Elements(actions)
    /\ IsSome(Ctxt.exec["Search"])
    /\ Ctxt.exec["Search"] # Ctxt.exec["Stand"]
    /\ "Search" \notin Elements(invoked)

\* C3: in every cycle that builds a candidate list the first eleven elements
\* are Unstiff, Animation, SitDown, Penalize, Initial, FallSafely, StandUp,
\* NoGroundContact, Stand, InterceptBall, Calibrate, in this order.
C3_FixedPrefixFirst ==
    NotInjected =>
        /\ Len(actions) >= 11
        /\ actions[1] = "Unstiff"
        /\ actions[2] = "Animation"
        /\ actions[3] = "SitDown"
        /\ actions[4] = "Penalize"
        /\ actions[5] = "Initial"
        /\ actions[6] = "FallSafely"
        /\ actions[7] = "StandUp"
        /\ actions[8] = "NoGroundContact"
        /\ actions[9] = "Stand"
        /\ actions[10] = "InterceptBall"
        /\ actions[11] = "Calibrate"

\* C3 witness: a Keeper's list in a penalty shoot-out with LookAround pushed:
\* fourteen elements, the fixed eleven first.
C3_Witness ==
    /\ NotInjected
    /\ Ctxt.role = "Keeper"
    /\ Len(actions) = 14
    /\ actions[12] = "LookAround"
    /\ Pre.previous_role = "Striker"

\* The start of the uninterrupted run of active cycles that ends with the
\* last cycle of h: its index, for a non-empty h whose last cycle is active.
RunStart(h) ==
    CHOOSE i \in 1 .. Len(h) :
        /\ \A j \in i .. Len(h) : IsActive(h[j].primary_state)
        /\ i = 1 \/ ~IsActive(h[i - 1].primary_state)

\* what active_since is after the cycles h, if it is Some(t) exactly when
\* the primary state was active in every cycle since the one at time t,
\* the first of that uninterrupted active run
ActiveRun(h) ==
    IF h = << >> THEN None
    ELSE IF ~IsActive(h[Len(h)].primary_state) THEN None
    ELSE Some(h[RunStart(h)].now)

WithoutInjected(h) == SelectSeq(h, LAMBDA e : ~e.injected)

\* C4 as stated: after every cycle of any run, active_since is Some(t) iff
\* the primary state was Ready, Set or Playing in every cycle from the one
\* at time t, the first of that active run, up to the current one.
C4_Original == active_since = ActiveRun(history)

\* C4, amended: the same, counting only the cycles without an injected
\* motion command (a cycle with an injected command does not touch
\* active_since, whatever its primary state is).
C4_ActiveRunOfCycles == active_since = ActiveRun(WithoutInjected(history))

\* C4 witness: active, inactive, active again, at three different times:
\* active_since is re-armed to the time of the third cycle.
C4_Witness ==
    /\ Len(history) = 3
    /\ \A i \in 1 .. 3 : ~history[i].injected
    /\ IsActive(history[1].primary_state)
    /\ ~IsActive(history[2].primary_state)
    /\ IsActive(history[3].primary_state)
    /\ history[1].now < history[2].now
    /\ history[2].now < history[3].now
    /\ active_since = Some(history[3].now)

\* C5: in a cycle without injected command active_since is updated from
\* (active_since, primary_state) by the table
\*   (None, Ready/Set/Playing) -> Some(cycle start time)
\*   (None, other) -> None
\*   (Some(t), Ready/Set/Playing) -> Some(t)
\*   (Some(t), other) -> None
\* and the list is built from the updated value: a cycle that arms the timer
\* with localization not converged already has LookAround in its list.
C5_ActiveSinceTable ==
    NotInjected =>
        /\ (Pre.active_since = None
                /\ Ctxt.primary_state \in { "Ready", "Set", "Playing" })
            => /\ active_since = Some(Ctxt.now)
               /\ ~Ctxt.converged => "LookAround" \in Elements(actions)
        /\ (Pre.active_since = None
                /\ Ctxt.primary_state \notin { "Ready", "Set", "Playing" })
            => active_since = None
        /\ (Pre.active_since # None
                /\ Ctxt.primary_state \in { "Ready", "Set", "Playing" })
            => active_since = Pre.active_since
        /\ (Pre.active_since # None
                /\ Ctxt.primary_state \notin { "Ready", "Set", "Playing" })
            => active_since = None

\* C5 witness: the timer was armed at an earlier time and the cycle is in
\* Set: the value is kept, not replaced by the later cycle start time.
C5_Witness ==
    /\ NotInjected
    /\ Pre.active_since = Some(1)
    /\ Ctxt.primary_state = "Set"
    /\ Ctxt.now = 3
    /\ active_since = Some(1)

\* C6: once previous_role is Keeper it is Keeper after every later cycle.
C6_KeeperSticky ==
    [][previous_role = "Keeper" => previous_role' = "Keeper"]_vars

\* C6 witness: the stored role is Keeper and a cycle with role Striker has
\* run without injected command.
C6_Witness ==
    /\ NotInjected
    /\ Pre.previous_role = "Keeper"
    /\ Ctxt.role = "Striker"
    /\ previous_role = "Keeper"

\* C7 as stated: in every reachable state, from construction onward,
\* previous_role is neither Searcher nor Loser.
C7_Original == previous_role \notin { "Searcher", "Loser" }

\* C7, amended: previous_role is never Loser, and it is Searcher only as
\* long as it still holds the value it was constructed with: once it is
\* another role it is never Searcher or Loser again.
C7_NoTransientRoleStored ==
    /\ [](previous_role # "Loser")
    /\ [][previous_role # "Searcher" =>
            previous_role' \notin { "Searcher", "Loser" }]_vars

\* C7 witness: DefenderLeft is stored, and a cycle with role Searcher has
\* run without injected command.
C7_Witness ==
    /\ NotInjected
    /\ Pre.previous_role = "DefenderLeft"
    /\ Ctxt.role = "Searcher"
    /\ previous_role = "DefenderLeft"

\* a cycle without injected command built its whole candidate list
ListBuilt == NotInjected /\ Out.status # "err"

\* the elements of the list after the fixed eleven and after LookAround
RoleSuffix ==
    SubSeq(actions,
           IF Len(actions) >= 12 /\ actions[12] = "LookAround"
           THEN 13 ELSE 12,
           Len(actions))

\* C8: for role Striker exactly one role-specific action is appended,
\* decided by the chain (first match wins): no filtered game-controller
\* state, or Playing with ball_is_free -> Dribble; Ready with own kicking
\* team -> WalkToPenaltyKick if the controller sub-state is PenaltyKick,
\* otherwise WalkToKickOff; Ready with sub-state PenaltyKick and controller
\* kicking team Opponent -> DefendPenaltyKick; everything else ->
\* DefendKickOff.
C8_StrikerChain ==
    (ListBuilt /\ Ctxt.role = "Striker") =>
        LET g == Ctxt.fgcs
            state == Unwrap(g).game_state
        IN  RoleSuffix =
              IF g = None THEN << "Dribble" >>
              ELSE IF state.tag = "Playing" /\ state.ball_is_free = TRUE
              THEN << "Dribble" >>
              ELSE IF state.tag = "Ready" /\ state.kicking_team = "Hulks"
              THEN IF Unwrap(g).sub_state = Some("PenaltyKick")
                   THEN << "WalkToPenaltyKick" >>
                   ELSE << "WalkToKickOff" >>
              ELSE IF /\ state.tag = "Ready"
                      /\ Unwrap(g).sub_state = Some("PenaltyKick")
                      /\ Unwrap(g).kicking_team = "Opponent"
              THEN << "DefendPenaltyKick" >>
              ELSE << "DefendKickOff" >>

\* C8 witness: Ready with the own team kicking in the game state, while the
\* controller's kicking team is Opponent and the sub-state PenaltyKick: the
\* earlier row of the chain decides, WalkToPenaltyKick.
C8_Witness ==
    /\ ListBuilt /\ Ctxt.role = "Striker"
    /\ Ctxt.fgcs # None
    /\ Unwrap(Ctxt.fgcs).game_state = [tag |-> "Ready", kicking_team |-> "Hulks"]
    /\ Unwrap(Ctxt.fgcs).kicking_team = "Opponent"
    /\ Unwrap(Ctxt.fgcs).sub_state = Some("PenaltyKick")
    /\ RoleSuffix = << "WalkToPenaltyKick" >>

\* C9: for role Keeper the role-specific suffix is << Jump, PrepareJump >>
\* when the filtered game-controller state is present and its phase is
\* PenaltyShootout or (its game state is Playing, its kicking team Opponent
\* and its sub-state PenaltyKick); in every other case, an absent state
\* included, it is << DefendGoal >>.
C9_KeeperSuffix ==
    (ListBuilt /\ Ctxt.role = "Keeper") =>
        LET g == Ctxt.fgcs
            penalty ==
                /\ g # None
                /\ \/ Unwrap(g).game_phase = "PenaltyShootout"
                   \/ /\ Unwrap(g).game_state.tag = "Playing"
                      /\ Unwrap(g).kicking_team = "Opponent"
                      /\ Unwrap(g).sub_state = Some("PenaltyKick")
        IN  /\ penalty => RoleSuffix = << "Jump", "PrepareJump" >>
            /\ ~penalty => RoleSuffix = << "DefendGoal" >>

\* C9 witness: a normal game phase, Playing, the opponent's penalty kick:
\* Jump, then PrepareJump.
C9_Witness ==
    /\ ListBuilt /\ Ctxt.role = "Keeper"
    /\ Ctxt.fgcs # None
    /\ Unwrap(Ctxt.fgcs).game_phase = "Normal"
    /\ Unwrap(Ctxt.fgcs).game_state.tag = "Playing"
    /\ actions[Len(actions) - 1] = "Jump"
    /\ actions[Len(actions)] = "PrepareJump"

\* C10: LookAround is in the candidate list iff active_since (as updated in
\* the cycle) is set, localization has not converged and the time elapsed
\* since active_since is strictly less than maximum_lookaround_duration;
\* when present it is the twelfth element, directly after Calibrate and
\* before the role-specific action(s).
C10_LookAroundGate ==
    ListBuilt =>
        LET gate ==
                /\ active_since # None
                /\ ~Ctxt.converged
                /\ Ctxt.now - Unwrap(active_since)
                      < Ctxt.maximum_lookaround_duration
            positions ==
                { i \in 1 .. Len(actions) : actions[i] = "LookAround" }
        IN  /\ gate => positions = { 12 }
            /\ ~gate => positions = { }
            /\ gate => /\ actions[11] = "Calibrate"
                       /\ Len(actions) >= 13
                       /\ SubSeq(actions, 13, Len(actions))
                            = RoleActions(Ctxt.role, Ctxt.fgcs)

\* C10 witness: the elapsed active time equals the maximum, localization has
\* not converged: LookAround is absent.
C10_Witness ==
    /\ ListBuilt
    /\ active_since # None
    /\ ~Ctxt.converged
    /\ Unwrap(active_since) < Ctxt.now
    /\ Ctxt.now - Unwrap(active_since) = Ctxt.maximum_lookaround_duration
    /\ "LookAround" \notin Elements(actions)
    /\ Len(actions) = 13

\* C11: in a cycle whose parameters carry an injected motion command the
\* emitted command is the injected one, the dribble_path output is absent,
\* no executor is invoked and no additional output is filled, subscribed or
\* not.
C11_InjectedBypass ==
    (CycleDone /\ Ctxt.injected # None) =>
        /\ Out.status = "ok"
        /\ Out.motion_command = Ctxt.injected
        /\ Out.dribble_path = None
        /\ Out.action = None
        /\ actions = << >>
        /\ invoked = << >>
        /\ written = { }

\* C11 witness: an injected command in a cycle with every additional output
\* subscribed, a planned dribble path and an executor ready to return.
C11_Witness ==
    /\ CycleDone /\ Ctxt.injected # None
    /\ Ctxt.subscribed = AdditionalOutputs
    /\ Ctxt.planned # None
    /\ Ctxt.exec["Dribble"] # None
    /\ Ctxt.role = "Striker"
    /\ Out.motion_command = Some("Walk")

\* C12: a cycle whose world state carries no ball observation leaves
\* last_known_ball_position as it was, whatever the cycle does (injected
\* command or not, returning outputs, an error, or panicking).
C12_BallMemoryKept ==
    (CycleDone /\ Ctxt.ball = None) =>
        last_known_ball_position = Pre.last_known_ball_position

\* C12 witness: a remembered ball on the left, no observation, and the
\* cycle fails with the duration_since error.
C12_Witness ==
    /\ CycleDone /\ Ctxt.ball = None
    /\ Ctxt.injected = None
    /\ Out.status = "err"
    /\ Pre.last_known_ball_position = "left"
    /\ last_known_ball_position = "left"

\* the command of the latest cycle of h in which find_map chose one;
\* MotionCommand::Unstiff if there is none
LastCommitted(h) ==
    LET chosen == { i \in 1 .. Len(h) : h[i].committed # None }
    IN  IF chosen = { } THEN "Unstiff"
        ELSE Unwrap(h[CHOOSE i \in chosen : \A j \in chosen : j <= i].committed)

\* C13: the last_motion_command handed to the path planner and to the
\* walk-and-stand service in a cycle is the command committed by arbitration
\* in the most recent earlier cycle that committed one (Unstiff if there was
\* none), never the one of the current cycle; after a cycle has committed a
\* command, last_motion_command is that command.
C13_LastCommandContinuity ==
    /\ last_motion_command = LastCommitted(history)
    /\ (CycleDone /\ handed # None) =>
          Unwrap(handed).last_motion_command
              = LastCommitted(SubSeq(history, 1, Len(history) - 1))

\* C13 witness: Stand is committed, then a command is injected, then Walk is
\* committed by a cycle whose services were handed Stand.
C13_Witness ==
    /\ CycleDone /\ Len(history) = 3
    /\ history[1].committed = Some("Stand")
    /\ history[2].injected
    /\ history[3].committed = Some("Walk")
    /\ handed # None
    /\ Unwrap(handed).last_motion_command = "Stand"
    /\ last_motion_command = "Walk"

\* the cycle started at a time earlier than the active_since recorded by an
\* earlier cycle
ClockWentBack ==
    /\ CycleDone
    /\ Pre.active_since # None
    /\ Ctxt.now < Unwrap(Pre.active_since)

\* the cycle failed: no motion command emitted, no action committed
CycleFailed ==
    /\ Out.status \in { "err", "panic" }
    /\ Out.motion_command = None
    /\ Out.action = None
    /\ last_motion_command = Pre.last_motion_command

\* C14 as stated: whenever a cycle's timestamp is earlier than the
\* active_since recorded by an earlier cycle, the cycle fails.
C14_Original == ClockWentBack => CycleFailed

\* C14, amended: such a cycle fails if it carries no injected command and
\* its primary state is Ready, Set or Playing; with another primary state it
\* clears active_since and goes on to arbitration, and with an injected
\* command it emits that command.
C14_ClockErrorWhileActive ==
    ClockWentBack =>
        /\ (Ctxt.injected = None
              /\ Ctxt.primary_state \in { "Ready", "Set", "Playing" })
           => (CycleFailed /\ Out.status = "err" /\ invoked = << >>)
        /\ (Ctxt.injected = None
              /\ Ctxt.primary_state \notin { "Ready", "Set", "Playing" })
           => (Out.status # "err" /\ active_since = None
                 /\ Len(actions) >= 12)
        /\ Ctxt.injected # None
           => (Out.status = "ok" /\ Out.motion_command = Ctxt.injected)

\* C14 witness: active since time 2, a cycle at time 1 in Ready fails.
C14_Witness ==
    /\ ClockWentBack
    /\ Pre.active_since = Some(2)
    /\ Ctxt.now = 1
    /\ Ctxt.primary_state = "Ready"
    /\ Ctxt.injected = None
    /\ Out.status = "err"

\* C16: every candidate list is the fixed eleven, then LookAround at most
\* once, then the role-specific suffix, and no action occurs twice; the
\* suffix has one element, two for a Keeper's penalty case, so the list has
\* 12 to 14 elements; for the roles without game-state branching the suffix
\* is fixed, whatever the game-controller state is.
C16_ListShape ==
    ListBuilt =>
        /\ SubSeq(actions, 1, 11)
             = << "Unstiff", "Animation", "SitDown", "Penalize", "Initial",
                  "FallSafely", "StandUp", "NoGroundContact", "Stand",
                  "InterceptBall", "Calibrate" >>
        /\ \A i, j \in 1 .. Len(actions) : actions[i] = actions[j] => i = j
        /\ \A i \in 1 .. Len(actions) : actions[i] = "LookAround" => i = 12
        /\ Len(actions) \in 12 .. 14
        /\ Len(RoleSuffix) \in { 1, 2 }
        /\ Len(RoleSuffix) = 2 =>
              (Ctxt.role = "Keeper" /\ RoleSuffix = << "Jump", "PrepareJump" >>)
        /\ "LookAround" \notin Elements(RoleSuffix)
        /\ Ctxt.role = "DefenderLeft" => RoleSuffix = << "DefendLeft" >>
        /\ Ctxt.role = "DefenderRight" => RoleSuffix = << "DefendRight" >>
        /\ Ctxt.role = "Loser" => RoleSuffix = << "SearchForLostBall" >>
        /\ Ctxt.role = "MidfielderLeft" => RoleSuffix = << "SupportLeft" >>
        /\ Ctxt.role = "MidfielderRight" => RoleSuffix = << "SupportRight" >>
        /\ Ctxt.role = "ReplacementKeeper" => RoleSuffix = << "DefendGoal" >>
        /\ Ctxt.role = "Searcher" => RoleSuffix = << "Search" >>
        /\ Ctxt.role = "StrikerSupporter"
              => RoleSuffix = << "SupportStriker" >>

\* C16 witness: a MidfielderLeft in a penalty shoot-out with the opponent's
\* penalty kick in Playing: thirteen elements, SupportLeft last.
C16_Witness ==
    /\ ListBuilt
    /\ Ctxt.role = "MidfielderLeft"
    /\ Ctxt.fgcs # None
    /\ Unwrap(Ctxt.fgcs).game_phase = "PenaltyShootout"
    /\ Unwrap(Ctxt.fgcs).game_state.tag = "Playing"
    /\ Unwrap(Ctxt.fgcs).sub_state = Some("PenaltyKick")
    /\ Len(actions) = 13
    /\ actions[12] = "LookAround"
    /\ actions[13] = "SupportLeft"

\* C17: in a cycle without injected command previous_role becomes the
\* cycle's role when the role differs from the stored value, is neither
\* Searcher nor Loser, and the stored value is not Keeper; otherwise it is
\* unchanged.  The Search executor of the cycle receives the updated value.
C17_PreviousRoleTable ==
    NotInjected =>
        LET update ==
                /\ Ctxt.role # Pre.previous_role
                /\ Ctxt.role \notin { "Searcher", "Loser" }
                /\ Pre.previous_role # "Keeper"
        IN  /\ update => previous_role = Ctxt.role
            /\ ~update => previous_role = Pre.previous_role
            /\ (handed # None /\ "Search" \in Elements(invoked))
                  => Unwrap(handed).previous_role = Some(previous_role)

\* C17 witness: DefenderLeft is stored, the role is Searcher, and the Search
\* executor runs and is given DefenderLeft.
C17_Witness ==
    /\ NotInjected
    /\ Pre.previous_role = "DefenderLeft"
    /\ Ctxt.role = "Searcher"
    /\ previous_role = "DefenderLeft"
    /\ Out.action = Some("Search")
    /\ Unwrap(handed).previous_role = Some("DefenderLeft")

\* the rows of the Striker branch table that do not depend on the sub-state
\* of an own kick in Ready
StrikerRowDribble ==
    \/ Ctxt.fgcs = None
    \/ /\ Unwrap(Ctxt.fgcs).game_state.tag = "Playing"
       /\ Unwrap(Ctxt.fgcs).game_state.ball_is_free

StrikerOwnKick ==
    /\ Ctxt.fgcs # None
    /\ Unwrap(Ctxt.fgcs).game_state.tag = "Ready"
    /\ Unwrap(Ctxt.fgcs).game_state.kicking_team = "Hulks"

StrikerRowDefendPenalty ==
    /\ Ctxt.fgcs # None
    /\ Unwrap(Ctxt.fgcs).game_state.tag = "Ready"
    /\ Unwrap(Ctxt.fgcs).sub_state = Some("PenaltyKick")
    /\ Unwrap(Ctxt.fgcs).kicking_team = "Opponent"

\* C18 as stated: a Striker input outside the five rows (no state; Playing
\* with a free ball; Ready, own kick, sub-state PenaltyKick; Ready, own kick,
\* sub-state None; Ready, sub-state PenaltyKick, Opponent kicking) gets
\* DefendKickOff.
C18_Original ==
    (/\ ListBuilt /\ Ctxt.role = "Striker"
     /\ ~StrikerRowDribble
     /\ ~(StrikerOwnKick /\ Unwrap(Ctxt.fgcs).sub_state = Some("PenaltyKick"))
     /\ ~(StrikerOwnKick /\ Unwrap(Ctxt.fgcs).sub_state = None)
     /\ ~StrikerRowDefendPenalty)
        => RoleSuffix = << "DefendKickOff" >>

\* C18, amended: the fourth row is Ready with own kicking team and any
\* sub-state other than PenaltyKick, and gives WalkToKickOff; a Striker input
\* outside the rows so read gets DefendKickOff.
C18_StrikerDefault ==
    (ListBuilt /\ Ctxt.role = "Striker") =>
        /\ (StrikerOwnKick /\ ~StrikerRowDribble
              /\ Unwrap(Ctxt.fgcs).sub_state # Some("PenaltyKick"))
              => RoleSuffix = << "WalkToKickOff" >>
        /\ (~StrikerRowDribble /\ ~StrikerOwnKick /\ ~StrikerRowDefendPenalty)
              => RoleSuffix = << "DefendKickOff" >>

\* C18 witness: Ready with the Opponent kicking and sub-state CornerKick
\* matches no row and gets DefendKickOff.
C18_Witness ==
    /\ ListBuilt /\ Ctxt.role = "Striker"
    /\ Ctxt.fgcs # None
    /\ Unwrap(Ctxt.fgcs).game_state
         = [tag |-> "Ready", kicking_team |-> "Opponent"]
    /\ Unwrap(Ctxt.fgcs).sub_state = Some("CornerKick")
    /\ RoleSuffix = << "DefendKickOff" >>

\* C19 as stated: after every cycle whose world state carries a ball
\* observation, last_known_ball_position is that observation's position.
C19_Original ==
    (CycleDone /\ Ctxt.ball # None)
        => last_known_ball_position = Unwrap(Ctxt.ball)

\* C19, amended: after every cycle without injected command whose world
\* state carries a ball observation, last_known_ball_position is that
\* observation's position, whatever action was chosen and whether the cycle
\* completed or failed; a cycle with an injected command leaves it as it was.
C19_BallFollowsObservation ==
    /\ (NotInjected /\ Ctxt.ball # None)
          => last_known_ball_position = Unwrap(Ctxt.ball)
    /\ (CycleDone /\ Ctxt.injected # None)
          => last_known_ball_position = Pre.last_known_ball_position

\* C19 witness: the ball was last seen on the right, the cycle observes it on
\* the left and chooses Stand.
C19_Witness ==
    /\ NotInjected
    /\ Pre.last_known_ball_position = "right"
    /\ Ctxt.ball = Some("left")
    /\ Out.action = Some("Stand")
    /\ last_known_ball_position = "left"

\* C20: a cycle that returns an error instead of outputs leaves all four
\* Behavior fields as they were before it.
C20_NoPartialCommit ==
    (CycleDone /\ Out.status = "err") => Behavior = Pre

\* config_1.merge(config_2) has run on the configurations read from tables
Merged == config_1 # None /\ config_2 = None

\* C15: Configuration::merge leaves self with the union of both key-binding
\* sets, keys compared after normalising the modifier notation (C-S-a and
\* C-A are the same key): a key bound only in self keeps self's action, a key
\* bound in other, whether or not self binds it, ends with other's action.
C15_MergeUnion ==
    /\ ParseTrigger(<< "C", "S", "a" >>) = ParseTrigger(<< "C", "A" >>)
    /\ ParseTrigger(<< "C", "a" >>) # ParseTrigger(<< "C", "A" >>)
    /\ Merged =>
          LET keys == Unwrap(config_1).keys
              in_self == { ParseTrigger(n) : n \in DOMAIN tables[1] }
              in_other == { ParseTrigger(n) : n \in DOMAIN tables[2] }
          IN  /\ DOMAIN keys = in_self \cup in_other
              /\ \A n \in DOMAIN tables[2] :
                    keys[ParseTrigger(n)] = tables[2][n]
              /\ \A n \in DOMAIN tables[1] :
                    ParseTrigger(n) \notin in_other
                       => keys[ParseTrigger(n)] = tables[1][n]

\* C15 witness: tests::merge_configs: { C-a: focus_left, C-S-a: reconnect }
\* merged with { C-c: focus_left, C-A: focus_right } equals what is read from
\* { C-a: focus_left, C-A: focus_right, C-c: focus_left }.
C15_Witness ==
    /\ Merged
    /\ tables[1] = ( << "C", "a" >> :> "focus_left"
                     @@ << "C", "S", "a" >> :> "reconnect" )
    /\ tables[2] = ( << "C", "c" >> :> "focus_left"
                     @@ << "C", "A" >> :> "focus_right" )
    /\ Unwrap(config_1)
         = FromStr( << "C", "a" >> :> "focus_left"
                    @@ << "C", "A" >> :> "focus_right"
                    @@ << "C", "c" >> :> "focus_left" )

\* C21 as stated: every cycle that emits a motion command exposes the
\* planner's result for its world state as dribble_path.
C21_Original ==
    (CycleDone /\ Out.motion_command # None)
        => Out.dribble_path = Ctxt.planned

\* C21, amended: every cycle without injected command that emits a motion
\* command exposes the planner's result for its world state as dribble_path,
\* whether the committed action is Dribble or any other; a cycle with an
\* injected command plans nothing and its dribble_path is absent.
C21_DribblePathExposed ==
    /\ (NotInjected /\ Out.motion_command # None)
          => (Out.status = "ok" /\ Out.dribble_path = Ctxt.planned)
    /\ (CycleDone /\ Ctxt.injected # None /\ Out.motion_command # None)
          => Out.dribble_path = None

\* C21 witness: the planner returns a path and the committed action is
\* Stand; the path is in the outputs.
C21_Witness ==
    /\ NotInjected
    /\ Ctxt.planned = Some("path")
    /\ Out.action = Some("Stand")
    /\ Out.dribble_path = Some("path")

\* C22: a cycle with an injected motion command leaves last_motion_command,
\* last_known_ball_position, active_since and previous_role as they were,
\* whatever its world state is; last_motion_command is not set to the
\* injected command.
C22_InjectedFrame ==
    (CycleDone /\ Ctxt.injected # None) =>
        /\ last_motion_command = Pre.last_motion_command
        /\ last_known_ball_position = Pre.last_known_ball_position
        /\ active_since = Pre.active_since
        /\ previous_role = Pre.previous_role

\* C22 witness: an injected Walk in a cycle whose world state would change
\* every field (Playing at a later time, a ball observation elsewhere,
\* another role, an executor ready to return another command).
C22_Witness ==
    /\ CycleDone /\ Ctxt.injected = Some("Walk")
    /\ Ctxt.primary_state = "Playing"
    /\ Pre.active_since = None
    /\ Ctxt.ball # None /\ Unwrap(Ctxt.ball) # Pre.last_known_ball_position
    /\ Ctxt.role \notin { Pre.previous_role, "Searcher", "Loser" }
    /\ Pre.previous_role # "Keeper"
    /\ Pre.last_motion_command = "Stand"
    /\ Out.motion_command = Some("Walk")
    /\ last_motion_command = "Stand"

\* the filter's last cycle
Seen == Unwrap(filtered)

\* the i-th message of the last cycle was the first one ever or carried a
\* game state other than the one stored when it was processed
ChangedAt(i) ==
    IF i = 1
    THEN \/ Seen.before.game_controller_state = None
         \/ Unwrap(Seen.before.game_controller_state).game_state
              # Seen.messages[1].game_state
    ELSE Seen.messages[i].game_state # Seen.messages[i - 1].game_state

\* C23: whenever game_controller_state is Some, last_game_state_change is
\* Some and is the state's last_game_state_change, and the unwrap never
\* fails; a cycle in which a processed message was the first ever or changed
\* the game state sets last_game_state_change to the cycle's start time, and
\* a cycle whose messages all carry the stored game state leaves it as it
\* was.
C23_ChangeTimeTracked ==
    /\ game_controller_state # None =>
          /\ last_game_state_change # None
          /\ Unwrap(game_controller_state).last_game_state_change
               = Unwrap(last_game_state_change)
    /\ filtered # None =>
          /\ Seen.status # "unwrap"
          /\ IF \E i \in 1 .. Seen.processed : ChangedAt(i)
             THEN last_game_state_change = Some(Seen.start_time)
             ELSE last_game_state_change = Seen.before.last_game_state_change

\* C23 witness: the game state changed in a cycle that started at 1 s; a
\* later cycle that starts at 3 s processes two messages with the stored
\* game state, and the change time stays 1 s.
C23_Witness ==
    /\ filtered # None
    /\ Seen.status = "ok"
    /\ Seen.before.last_game_state_change = Some(Seconds(1))
    /\ Seen.start_time = Seconds(3)
    /\ Seen.processed = 2
    /\ ~ChangedAt(1) /\ ~ChangedAt(2)
    /\ Unwrap(game_controller_state).last_game_state_change = Seconds(1)

\* the addresses whose contact is less than five seconds before the request
RecentAt(request) ==
    { a \in DOMAIN request.contacts :
        /\ NotAfter(request.contacts[a], request.time)
        /\ Unwrap(DurationSince(request.time, request.contacts[a])).secs < 5 }

\* the time between a request and the warning before it
Gap(request) == Unwrap(DurationSince(request.time, Unwrap(request.since)))

\* C24 as stated: a warning is requested only if at least two addresses had
\* contact less than 5 seconds before the message's time, and a warning is
\* at least 10 seconds after the one before it.
C24_Original ==
    (filtered # None /\ Seen.status = "ok") =>
        \A i \in 1 .. Len(Seen.requested) :
            /\ Cardinality(RecentAt(Seen.requested[i])) >= 2
            /\ Seen.requested[i].since # None
                  => Gap(Seen.requested[i]).secs >= 10

\* C24, what holds instead: a warning is requested only if at least two addresses, the
\* sender included, had contact less than 5 seconds before the message's
\* time, and a warning is at least 9.9999995 seconds after the one before
\* it: the cooldown compares the distance as f32, and a distance of
\* 9.999999999 s is 10.0 as f32.
C24_CollisionWarnings ==
    (filtered # None /\ Seen.status = "ok") =>
        \A i \in 1 .. Len(Seen.requested) :
            /\ Cardinality(RecentAt(Seen.requested[i])) >= 2
            /\ Seen.messages[Seen.processed].source_address
                  \in RecentAt(Seen.requested[i])
            /\ Seen.requested[i].since # None
                  => \/ Gap(Seen.requested[i]).secs >= 10
                     \/ /\ Gap(Seen.requested[i]).secs = 9
                        /\ Gap(Seen.requested[i]).nanos >= 999999500

\* C24 witness: a warning 9.999999999 s after the one before it.
C24_Witness ==
    /\ filtered # None /\ Seen.status = "ok"
    /\ Len(Seen.requested) = 1
    /\ Seen.requested[1].since # None
    /\ Gap(Seen.requested[1]) = [ secs |-> 9, nanos |-> 999999999 ]
    /\ last_collision_warning = Some(Seen.requested[1].time)

\* C25: after reset() the interpolator is as freshly constructed from its
\* motion file: every item is reset and index is 0.
C25_ResetRestores ==
    called = "reset" =>
        /\ items = TryFrom(Unwrap(motion_file)).items
        /\ index = 0

====
